---- MODULE Spec2Model ----
(***************************************************************************)
(* Model of the junie-github-action glue layer.                            *)
(*                                                                         *)
(*  - Branch selection: extractJunieWorkflowContext (github/context.ts)    *)
(*    followed by setupBranch / setupWorkingBranch / createNewBranch       *)
(*    (github/operations/branch.ts).  Strings whose content matters        *)
(*    (refs, branch names, run ids) are sequences of one-character         *)
(*    strings, so that replace / toLowerCase / substring are computed.     *)
(***************************************************************************)
EXTENDS Integers, Sequences, FiniteSets, TLC

----------------------------------------------------------------------------
(* Bounds *)

\* entity numbers (issue / PR numbers) range over {1, MaxNumber}
MaxNumber == 12

\* length of the long run identifier (GITHUB_RUN_ID is an arbitrary string)
LongRunIdLen == 45

----------------------------------------------------------------------------
(* String helpers: JavaScript string primitives on character sequences *)

Min(a, b) == IF a < b THEN a ELSE b

UpperLetters ==
    <<"A", "B", "C", "D", "E", "F", "G", "H", "I", "J", "K", "L", "M",
      "N", "O", "P", "Q", "R", "S", "T", "U", "V", "W", "X", "Y", "Z">>

LowerLetters ==
    <<"a", "b", "c", "d", "e", "f", "g", "h", "i", "j", "k", "l", "m",
      "n", "o", "p", "q", "r", "s", "t", "u", "v", "w", "x", "y", "z">>

Digits == <<"0", "1", "2", "3", "4", "5", "6", "7", "8", "9">>

Range(f) == {f[i] : i \in DOMAIN f}

ToLower ==
    [c \in Range(UpperLetters) |->
        LowerLetters[CHOOSE i \in DOMAIN UpperLetters : UpperLetters[i] = c]]

IsUpperChar(c) == c \in DOMAIN ToLower

\* String.prototype.toLowerCase
LowerChar(c) == IF IsUpperChar(c) THEN ToLower[c] ELSE c

toLowerCase(s) == [i \in 1..Len(s) |-> LowerChar(s[i])]

\* String.prototype.substring(0, n)
substring0(s, n) == SubSeq(s, 1, Min(n, Len(s)))

\* String.prototype.indexOf: 1-based index of the first occurrence, 0 if none
indexOf(s, pat) ==
    LET starts == {i \in 1..(Len(s) - Len(pat) + 1) :
                       SubSeq(s, i, i + Len(pat) - 1) = pat}
    IN IF starts = {} THEN 0
       ELSE CHOOSE i \in starts : \A j \in starts : i <= j

\* String.prototype.replace(pat, rep) with a string pattern:
\* only the first occurrence is replaced, wherever it is
replace(s, pat, rep) ==
    LET i == indexOf(s, pat)
    IN IF i = 0 THEN s
       ELSE SubSeq(s, 1, i - 1) \o rep \o SubSeq(s, i + Len(pat), Len(s))

startsWith(s, pat) == Len(s) >= Len(pat) /\ SubSeq(s, 1, Len(pat)) = pat

DigitChar(d) == Digits[d + 1]

\* template-literal conversion of a positive number: its decimal digits
RECURSIVE NumberToString(_)
NumberToString(n) ==
    IF n < 10 THEN <<DigitChar(n)>>
    ELSE NumberToString(n \div 10) \o <<DigitChar(n % 10)>>

Repeat(c, n) == [i \in 1..n |-> c]

----------------------------------------------------------------------------
(* Program constants *)

\* constants/github.ts
WORKING_BRANCH_PREFIX == <<"j", "u", "n", "i", "e", "/">>

\* createNewBranch: substring(0, 50)
MaxBranchNameLen == 50

\* the literal of context.payload.ref.replace("refs/heads/", "")
REFS_HEADS == <<"r", "e", "f", "s", "/", "h", "e", "a", "d", "s", "/">>

REFS_TAGS == <<"r", "e", "f", "s", "/", "t", "a", "g", "s", "/">>

S_pr == <<"p", "r">>
S_issue == <<"i", "s", "s", "u", "e">>
S_run == <<"r", "u", "n">>
S_dash == <<"-">>

RESOLVE_CONFLICTS_ACTION == "resolve-conflicts"

----------------------------------------------------------------------------
(* Input domains *)

B_main == <<"m", "a", "i", "n">>
B_develop == <<"d", "e", "v">>
B_release == <<"r", "e", "l">>
B_feat == <<"f", "e", "a", "t">>
B_Fx == <<"F", "x">>
B_empty == <<>>

Logins == {"alice", "junie-bot"}

Numbers == {1, MaxNumber}

\* GITHUB_RUN_ID: a short one with capitals and a long one
RunIds == {<<"7", "A", "b">>, Repeat("9", LongRunIdLen - 1) \o <<"B">>}

\* process.env.BASE_BRANCH: unset or empty (both falsy, written <<>>) or a name
ConfiguredBases == {B_empty, B_develop}

\* pull_request.state as delivered: the values the code tests for and the
\* lower-case ones
PRStates == {"OPEN", "CLOSED", "MERGED", "open", "closed"}

PRDescriptors ==
    [present : {TRUE}, state : PRStates, author : Logins,
     head : {B_feat, B_Fx}, base : {B_release}]

\* no pull request (none in the payload, none in the repository)
NoPR ==
    [present |-> FALSE, state |-> "", author |-> "", head |-> <<>>,
     base |-> <<>>]

\* refs of a push event
PushRefs ==
    { REFS_HEADS \o B_main,
      REFS_HEADS \o B_Fx,
      REFS_TAGS \o <<"v", "1">>,
      REFS_TAGS \o REFS_HEADS \o <<"x">>,
      REFS_HEADS \o REFS_HEADS \o <<"x">> }

PullRequestEvents ==
    {"pull_request", "pull_request_target", "pull_request_review",
     "pull_request_review_comment"}

SupportedEvents ==
    {"issues", "issue_comment", "check_suite", "push", "workflow_dispatch",
     "repository_dispatch", "schedule", "workflow_run"}
    \cup PullRequestEvents

EventNames == SupportedEvents \cup {"release"}

\* the part of the webhook payload the context extraction and the branch
\* selection read; a number that is undefined is written 0 (falsy as well)
NoPayload ==
    [issueNumber |-> 0, issueIsPR |-> FALSE, prNumber |-> 0,
     pull_request |-> NoPR, linkedPRs |-> <<>>, ref |-> <<>>,
     inputAction |-> "", inputPrNumber |-> 0]

Payloads(name) ==
    CASE name = "issues" ->
           {[NoPayload EXCEPT !.issueNumber = n] : n \in Numbers}
      [] name = "issue_comment" ->
           {[NoPayload EXCEPT !.issueNumber = n, !.issueIsPR = b] :
                n \in Numbers, b \in BOOLEAN}
      [] name \in PullRequestEvents ->
           {[NoPayload EXCEPT !.prNumber = n, !.pull_request = d] :
                n \in Numbers, d \in PRDescriptors}
      [] name \in {"check_suite", "workflow_run"} ->
           {[NoPayload EXCEPT !.linkedPRs = l] :
                l \in {<<>>} \cup {<<n>> : n \in Numbers}}
      [] name = "push" ->
           {[NoPayload EXCEPT !.ref = r] : r \in PushRefs}
      [] name = "workflow_dispatch" ->
           {[NoPayload EXCEPT !.inputAction = a, !.inputPrNumber = n] :
                a \in {"", RESOLVE_CONFLICTS_ACTION},
                n \in {0} \cup Numbers}
      [] OTHER -> {NoPayload}

\* payload.repository.default_branch
DEFAULT_BRANCH == B_main

\* `${owner.login}/${repository.name}`
REPO_FULL_NAME == "octo/repo"

----------------------------------------------------------------------------
(* github/context.ts *)

NoContext ==
    [eventName |-> "", runId |-> <<>>, actor |-> "", tokenOwner |-> "",
     entityNumber |-> 0, isPR |-> FALSE,
     inputs |-> [createNewBranchForPR |-> FALSE, baseBranch |-> <<>>],
     payload |-> NoPayload]

\* commonFields of extractJunieWorkflowContext
commonFields(name, pl, act, owner, e) ==
    [eventName |-> name, runId |-> e.runId, actor |-> act,
     tokenOwner |-> owner, entityNumber |-> 0, isPR |-> FALSE,
     inputs |-> [createNewBranchForPR |-> e.createNewBranchForPR,
                 baseBranch |-> e.baseBranch],
     payload |-> pl]

\* the switch of extractJunieWorkflowContext, for a supported event.
\* isPR undefined is written FALSE: only its truthiness is read.
extractJunieWorkflowContext(name, pl, act, owner, e) ==
    LET c == commonFields(name, pl, act, owner, e)
        linked == Len(pl.linkedPRs) > 0
    IN CASE name = "issues" ->
              [c EXCEPT !.entityNumber = pl.issueNumber, !.isPR = FALSE]
         [] name = "issue_comment" ->
              [c EXCEPT !.entityNumber = pl.issueNumber,
                        !.isPR = pl.issueIsPR]
         [] name \in {"pull_request", "pull_request_target"} ->
              [c EXCEPT !.eventName = "pull_request",
                        !.entityNumber = pl.prNumber, !.isPR = TRUE]
         [] name \in {"pull_request_review",
                      "pull_request_review_comment"} ->
              [c EXCEPT !.entityNumber = pl.prNumber, !.isPR = TRUE]
         [] name \in {"check_suite", "workflow_run"} ->
              [c EXCEPT !.entityNumber =
                            IF linked THEN pl.linkedPRs[1] ELSE 0,
                        !.isPR = linked]
         [] name = "workflow_dispatch" ->
              IF pl.inputAction = RESOLVE_CONFLICTS_ACTION
              THEN [c EXCEPT !.entityNumber = pl.inputPrNumber,
                             !.isPR = TRUE]
              ELSE c
         [] OTHER -> c

isPushEvent(c) == c.eventName = "push"

isPullRequestEvent(c) == c.eventName = "pull_request"

isPullRequestReviewEvent(c) == c.eventName = "pull_request_review"

isPullRequestReviewCommentEvent(c) ==
    c.eventName = "pull_request_review_comment"

----------------------------------------------------------------------------
(* github/operations/branch.ts *)

\* mutant: the token-owner rule is missing
shouldUseExistingPRBranch_NoTokenOwnerRule(createNewBranchForPR, act, prAuthor, tokenOwnerLogin) ==
    IF ~createNewBranchForPR THEN TRUE
    ELSE IF act = prAuthor THEN TRUE
    ELSE FALSE

shouldUseExistingPRBranch(createNewBranchForPR, act, prAuthor, tokenOwnerLogin) ==
    IF ~createNewBranchForPR THEN TRUE
    ELSE IF act = prAuthor THEN TRUE
    ELSE IF prAuthor = tokenOwnerLogin THEN TRUE
    ELSE FALSE

\* mutant: the name is lower-cased but not truncated
normalizeBranchName_NoTruncate(branchName) == toLowerCase(branchName)

\* createNewBranch, line 78: branchName.toLowerCase().substring(0, 50)
normalizeBranchName(branchName) ==
    substring0(toLowerCase(branchName), MaxBranchNameLen)

\* setupWorkingBranch, line 107
initialBaseBranch(c) ==
    IF c.inputs.baseBranch # <<>> THEN c.inputs.baseBranch ELSE DEFAULT_BRANCH

\* setupWorkingBranch, line 190
pushBaseBranch(ref) == replace(ref, REFS_HEADS, <<>>)

\* setupWorkingBranch, line 194
entityType(c) ==
    IF c.isPR THEN S_pr ELSE IF c.entityNumber # 0 THEN S_issue ELSE S_run

\* setupWorkingBranch, line 195
requestedBranchName(c) ==
    WORKING_BRANCH_PREFIX \o entityType(c) \o S_dash \o
        (IF c.entityNumber # 0 THEN NumberToString(c.entityNumber)
                               ELSE c.runId)

NoPlan ==
    [kind |-> "none", baseBranch |-> <<>>, branchName |-> <<>>,
     workingBranch |-> <<>>]

\* setupWorkingBranch, lines 189-196: the fall-through to createNewBranch
\* with the base branch computed so far
newBranchPlan(c, baseBranch) ==
    LET base == IF isPushEvent(c) THEN pushBaseBranch(c.payload.ref)
                                  ELSE baseBranch
    IN [kind |-> "new", baseBranch |-> base,
        branchName |-> requestedBranchName(c),
        workingBranch |-> normalizeBranchName(requestedBranchName(c))]

\* mutant: the state of the pull request is not looked at
prBranchPlan_IgnoresState(c, pr) ==
    IF shouldUseExistingPRBranch(c.inputs.createNewBranchForPR, c.actor,
                                 pr.author, c.tokenOwner)
    THEN [kind |-> "existing", baseBranch |-> pr.base,
          branchName |-> pr.head, workingBranch |-> pr.head]
    ELSE newBranchPlan(c, pr.head)

\* mutant: the new branch of an external contributor starts at the PR base
prBranchPlan_NewFromPRBase(c, pr) ==
    IF pr.state = "CLOSED" \/ pr.state = "MERGED"
    THEN newBranchPlan(c, pr.base)
    ELSE IF shouldUseExistingPRBranch(c.inputs.createNewBranchForPR, c.actor,
                                      pr.author, c.tokenOwner)
    THEN [kind |-> "existing", baseBranch |-> pr.base,
          branchName |-> pr.head, workingBranch |-> pr.head]
    ELSE newBranchPlan(c, pr.base)

\* mutant: the new branch for a closed pull request starts at its head
prBranchPlan_ClosedFromHead(c, pr) ==
    IF pr.state = "CLOSED" \/ pr.state = "MERGED"
    THEN newBranchPlan(c, pr.head)
    ELSE IF shouldUseExistingPRBranch(c.inputs.createNewBranchForPR, c.actor,
                                      pr.author, c.tokenOwner)
    THEN [kind |-> "existing", baseBranch |-> pr.base,
          branchName |-> pr.head, workingBranch |-> pr.head]
    ELSE newBranchPlan(c, pr.head)

\* setupWorkingBranch, lines 147-186: the decision once the pull request
\* data (payload or REST) is at hand
prBranchPlan(c, pr) ==
    LET useExistingBranch ==
            shouldUseExistingPRBranch(c.inputs.createNewBranchForPR, c.actor,
                                      pr.author, c.tokenOwner)
    IN IF pr.state = "CLOSED" \/ pr.state = "MERGED"
       THEN newBranchPlan(c, pr.base)
       ELSE IF useExistingBranch
       THEN [kind |-> "existing", baseBranch |-> pr.base,
             branchName |-> pr.head, workingBranch |-> pr.head]
       ELSE newBranchPlan(c, pr.head)

\* mutant: the PR block is entered for any entity number
inPRBlock_IgnoresIsPR(c) == c.entityNumber # 0

\* setupWorkingBranch, line 112
inPRBlock(c) == c.isPR /\ c.entityNumber # 0

\* setupWorkingBranch, lines 116-118
prInPayload(c) ==
    isPullRequestEvent(c) \/ isPullRequestReviewEvent(c)
        \/ isPullRequestReviewCommentEvent(c)

NoError == [kind |-> "none"]

NoBranchInfo ==
    [set |-> FALSE, baseBranch |-> <<>>, workingBranch |-> <<>>,
     isNewBranch |-> FALSE]

NoOutputs ==
    [set |-> FALSE, BASE_BRANCH |-> <<>>, WORKING_BRANCH |-> <<>>,
     IS_NEW_BRANCH |-> ""]

----------------------------------------------------------------------------
VARIABLES
    eventName,      \* github.context.eventName
    payload,        \* github.context.payload (the fields read)
    actor,          \* github.context.actor
    tokenOwner,     \* tokenOwner.login
    env,            \* process.env: runId, baseBranch, createNewBranchForPR
    repoPR,         \* the pull request as the repository holds it (REST)
    context,        \* the parsed JunieExecutionContext
    pc,             \* position of the prepare step
    plan,           \* locals of setupWorkingBranch once the decision is made
    lookups,        \* number of octokit.rest.pulls.get calls made
    gitLog,         \* git commands run so far, in order
    branchInfo,     \* the BranchInfo returned by setupWorkingBranch
    outputs,        \* core.setOutput calls of setupBranch
    error           \* the Error thrown

branchVars ==
    <<eventName, payload, actor, tokenOwner, env, repoPR, context, pc, plan,
      lookups, gitLog, branchInfo, outputs, error>>

VARIABLES
    trigEvent,      \* the event the trigger detection reads
    trigConfig,     \* triggerPhrase, assigneeTrigger, labelTrigger
    trigPc,         \* "idle", "ready" or "done"
    trigResult      \* the value detect returned

trigVars == <<trigEvent, trigConfig, trigPc, trigResult>>

VARIABLES
    escInput,       \* the string escapeRegExp is applied to
    escOutput,      \* the pattern source escapeRegExp returned
    escPc           \* "idle", "ready" or "done"

escVars == <<escInput, escOutput, escPc>>

VARIABLES
    tkContext,      \* the context prepareJunieTask reads
    tkBranchInfo,   \* the BranchInfo prepareJunieTask reads
    tkPc,           \* position of prepareJunieTask
    tkValidated,    \* the last call of validateInputSize and its outcome
    tkTaskText,     \* the local taskText
    tkOutput,       \* core.setOutput(JUNIE_JSON_TASK, ...)
    tkReturn,       \* the CliInput returned
    tkError         \* the message of the Error thrown

taskVars ==
    <<tkContext, tkBranchInfo, tkPc, tkValidated, tkTaskText, tkOutput,
      tkReturn, tkError>>

VARIABLES
    rtPc,           \* "idle", "running", "resolved" or "rejected"
    rtLog,          \* the calls of octokit.graphql made, with their outcomes
    rtOutcome       \* how the promise of executeGraphQLWithRetry settled

retryVars == <<rtPc, rtLog, rtOutcome>>

VARIABLES
    stStep,         \* the entrypoint running: "prepare", "handle-results", ...
    stDone,         \* the operations of the entrypoint completed, in order
    stThrown,       \* the value thrown, and by which operation
    stReport        \* core.setFailed, the EXCEPTION output, the exit status

stepVars == <<stStep, stDone, stThrown, stReport>>

VARIABLES
    hrIn,           \* what handleResults reads: the agent output, the context
                    \* inputs and the environment
    hrPc,           \* "idle", "start", "log", "done" or "failed"
    hrGit,          \* the git commands run by getActionToDo, with outcomes
    hrAction,       \* the ActionType chosen, "" before
    hrOutputs,      \* the names of the outputs set with core.setOutput
    hrReport        \* core.setFailed, the exit status

resultVars == <<hrIn, hrPc, hrGit, hrAction, hrOutputs, hrReport>>

VARIABLES
    fbContext,      \* the GitHubContext given to writeInitialFeedbackComment
    fbPc,           \* "idle", "start", "returned" or "failed"
    fbCalls,        \* the calls of the REST client made
    fbOutput,       \* the INIT_COMMENT_ID output, 0 when not set
    fbReturn        \* what the promise settled with

feedbackVars == <<fbContext, fbPc, fbCalls, fbOutput, fbReturn>>

VARIABLES
    acActor,        \* context.actor, a character sequence
    acRepo,         \* context.payload.repository
    acPc,           \* "idle", "start", "lookup", "returned" or "failed"
    acLookups,      \* the calls of getCollaboratorPermissionLevel made
    acReturn        \* what the promise settled with

accessVars == <<acActor, acRepo, acPc, acLookups, acReturn>>

\* the variables of handleResults, the feedback comment and the access check
lateVars == <<resultVars, feedbackVars, accessVars>>

\* the variables of the parts modelled after trigger detection
moreVars == <<escVars, taskVars, retryVars, stepVars, lateVars>>

vars == <<branchVars, trigVars, moreVars>>

\* escapeRegExp is not running
EscIdle ==
    /\ escInput = <<>>
    /\ escOutput = <<>>
    /\ escPc = "idle"

\* a text the model keeps the length of; undefined when not defined
NoText == [defined |-> FALSE, len |-> 0]

Text(n) == [defined |-> TRUE, len |-> n]

NoTkContext ==
    [eventName |-> "", isPR |-> FALSE,
     inputs |-> [prompt |-> NoText, resolveConflicts |-> FALSE],
     resolvePhrase |-> FALSE]

NoTkBranchInfo == [baseBranch |-> <<>>, prBaseBranch |-> <<>>]

NoValidation == [called |-> FALSE, size |-> 0, inputName |-> "", ok |-> FALSE]

NoCliInput == [kind |-> "none", task |-> NoText, branch |-> <<>>]

\* prepareJunieTask is not running
TaskIdle ==
    /\ tkContext = NoTkContext
    /\ tkBranchInfo = NoTkBranchInfo
    /\ tkPc = "idle"
    /\ tkValidated = NoValidation
    /\ tkTaskText = NoText
    /\ tkOutput = NoCliInput
    /\ tkReturn = NoCliInput
    /\ tkError = <<>>

NoOutcome == [kind |-> "none", status |-> 0, data |-> ""]

\* executeGraphQLWithRetry is not running
RetryIdle ==
    /\ rtPc = "idle"
    /\ rtLog = <<>>
    /\ rtOutcome = NoOutcome

NoThrown == [at |-> 0, isError |-> FALSE, text |-> ""]

NoReport ==
    [exited |-> FALSE, exitCode |-> 0, failed |-> <<>>, exceptionSet |-> FALSE,
     exception |-> ""]

\* no entrypoint is running
StepIdle ==
    /\ stStep = ""
    /\ stDone = <<>>
    /\ stThrown = NoThrown
    /\ stReport = NoReport

NoErrors == [defined |-> FALSE, list |-> <<>>]

NoHrIn ==
    [errors |-> NoErrors, silentMode |-> FALSE, initCommentId |-> FALSE,
     isNewBranch |-> FALSE, issueId |-> 0, titleLen |-> 0]

NoHrReport == [exited |-> FALSE, exitCode |-> 0, failed |-> <<>>,
               errors |-> <<>>]

\* handleResults is not running
ResultsIdle ==
    /\ hrIn = NoHrIn
    /\ hrPc = "idle"
    /\ hrGit = <<>>
    /\ hrAction = ""
    /\ hrOutputs = {}
    /\ hrReport = NoHrReport

NoFbContext == [eventName |-> "", entityNumber |-> 0, silentMode |-> FALSE]

NoFbReturn == [kind |-> "none", id |-> 0]

\* writeInitialFeedbackComment is not running
FeedbackIdle ==
    /\ fbContext = NoFbContext
    /\ fbPc = "idle"
    /\ fbCalls = <<>>
    /\ fbOutput = 0
    /\ fbReturn = NoFbReturn

NoAcReturn == [kind |-> "none", value |-> FALSE, text |-> ""]

\* verifyRepositoryAccess is not running
AccessIdle ==
    /\ acActor = <<>>
    /\ acRepo = ""
    /\ acPc = "idle"
    /\ acLookups = <<>>
    /\ acReturn = NoAcReturn

\* every later part but the one named is not running
MoreIdleBut(part) ==
    /\ part = "escape" \/ EscIdle
    /\ part = "task" \/ TaskIdle
    /\ part = "retry" \/ RetryIdle
    /\ part = "step" \/ StepIdle
    /\ part = "results" \/ ResultsIdle
    /\ part = "feedback" \/ FeedbackIdle
    /\ part = "access" \/ AccessIdle

MoreIdle == MoreIdleBut("")

NoTrigEvent ==
    [kind |-> "", action |-> "", textFields |-> <<>>, assigneeLogin |-> <<>>,
     labelName |-> <<>>]

NoTrigConfig ==
    [phrase |-> <<>>, assigneeTrigger |-> <<>>, labelTrigger |-> <<>>]

\* the trigger detection is not running
TrigIdle ==
    /\ trigEvent = NoTrigEvent
    /\ trigConfig = NoTrigConfig
    /\ trigPc = "idle"
    /\ trigResult = FALSE

Envs ==
    [runId : RunIds, baseBranch : ConfiguredBases,
     createNewBranchForPR : BOOLEAN]

\* whether the payload carries a number a REST lookup of a pull request
\* could be made with (the repository then may or may not hold such a PR)
MayLookup(name, pl) ==
    /\ name \notin PullRequestEvents
    /\ \/ pl.issueNumber # 0
       \/ Len(pl.linkedPRs) > 0
       \/ pl.inputPrNumber # 0

Init ==
    /\ eventName \in EventNames
    /\ payload \in Payloads(eventName)
    /\ actor \in Logins
    /\ tokenOwner \in Logins
    /\ env \in Envs
    /\ repoPR \in IF MayLookup(eventName, payload)
                  THEN PRDescriptors \cup {NoPR} ELSE {NoPR}
    /\ context = NoContext
    /\ pc = "start"
    /\ plan = NoPlan
    /\ lookups = 0
    /\ gitLog = <<>>
    /\ branchInfo = NoBranchInfo
    /\ outputs = NoOutputs
    /\ error = NoError
    /\ TrigIdle
    /\ MoreIdle

inputsUnchanged ==
    UNCHANGED <<eventName, payload, actor, tokenOwner, env, repoPR, trigVars,
                moreVars>>

\* entrypoints/prepare.ts run -> extractJunieWorkflowContext, a supported event
ParseContext ==
    /\ pc = "start"
    /\ eventName \in SupportedEvents
    /\ context' = extractJunieWorkflowContext(eventName, payload, actor,
                                              tokenOwner, env)
    /\ pc' = "setup"
    /\ UNCHANGED <<plan, lookups, gitLog, branchInfo, outputs, error>>
    /\ inputsUnchanged

\* extractJunieWorkflowContext, default: throw new Error("Unsupported event type")
ParseContextUnsupported ==
    /\ pc = "start"
    /\ eventName \notin SupportedEvents
    /\ error' = [kind |-> "UnsupportedEvent", eventName |-> eventName]
    /\ pc' = "failed"
    /\ UNCHANGED <<context, plan, lookups, gitLog, branchInfo, outputs>>
    /\ inputsUnchanged

\* setupWorkingBranch up to its first await, with the pull request of the payload
SetupFromPayload ==
    /\ pc = "setup"
    /\ inPRBlock(context) /\ prInPayload(context)
    /\ plan' = prBranchPlan(context, context.payload.pull_request)
    /\ pc' = "fetch"
    /\ UNCHANGED <<context, lookups, gitLog, branchInfo, outputs, error>>
    /\ inputsUnchanged

\* setupWorkingBranch up to its first await, outside the PR block
SetupNoPR ==
    /\ pc = "setup"
    /\ ~inPRBlock(context)
    /\ plan' = newBranchPlan(context, initialBaseBranch(context))
    /\ pc' = "fetch"
    /\ UNCHANGED <<context, lookups, gitLog, branchInfo, outputs, error>>
    /\ inputsUnchanged

\* octokit.rest.pulls.get resolves
LookupPR ==
    /\ pc = "setup"
    /\ inPRBlock(context) /\ ~prInPayload(context)
    /\ repoPR.present
    /\ lookups' = lookups + 1
    /\ plan' = prBranchPlan(context, repoPR)
    /\ pc' = "fetch"
    /\ UNCHANGED <<context, gitLog, branchInfo, outputs, error>>
    /\ inputsUnchanged

\* mutant: a failed lookup is tried again instead of being thrown
LookupPRFails_Retries ==
    /\ pc = "setup"
    /\ inPRBlock(context) /\ ~prInPayload(context)
    /\ lookups' = lookups + 1
    /\ UNCHANGED <<context, pc, plan, gitLog, branchInfo, outputs, error>>
    /\ inputsUnchanged

\* octokit.rest.pulls.get rejects (not found, permission, rate limit)
LookupPRFails ==
    /\ pc = "setup"
    /\ inPRBlock(context) /\ ~prInPayload(context)
    /\ lookups' = lookups + 1
    /\ error' = [kind |-> "FetchPRFailed", entityNumber |-> context.entityNumber,
                 repoFullName |-> REPO_FULL_NAME]
    /\ pc' = "failed"
    /\ UNCHANGED <<context, plan, gitLog, branchInfo, outputs>>
    /\ inputsUnchanged

\* the git fetch of the plan: line 82 (new branch) or line 162 (PR branch)
fetchCommand(p) ==
    IF p.kind = "new"
    THEN [cmd |-> "fetch", ref |-> p.baseBranch, start |-> <<>>]
    ELSE [cmd |-> "fetch", ref |-> p.workingBranch, start |-> <<>>]

\* the git checkout of the plan: line 83 (new branch) or line 163 (PR branch)
checkoutCommand(p) ==
    IF p.kind = "new"
    THEN [cmd |-> "checkout -b", ref |-> p.workingBranch, start |-> p.baseBranch]
    ELSE [cmd |-> "checkout", ref |-> p.workingBranch, start |-> <<>>]

\* the Error of the catch block around the git commands (lines 92-103, 172-181)
gitError(c, p) ==
    IF p.kind = "new"
    THEN [kind |-> "CreateBranchFailed", newBranch |-> p.workingBranch,
          baseBranch |-> p.baseBranch]
    ELSE [kind |-> "CheckoutPRBranchFailed", sourceBranch |-> p.workingBranch,
          entityNumber |-> c.entityNumber]

GitFetch ==
    /\ pc = "fetch"
    /\ gitLog' = Append(gitLog, fetchCommand(plan))
    /\ pc' = "checkout"
    /\ UNCHANGED <<context, plan, lookups, branchInfo, outputs, error>>
    /\ inputsUnchanged

GitFetchFails ==
    /\ pc = "fetch"
    /\ gitLog' = Append(gitLog, fetchCommand(plan))
    /\ error' = gitError(context, plan)
    /\ pc' = "failed"
    /\ UNCHANGED <<context, plan, lookups, branchInfo, outputs>>
    /\ inputsUnchanged

\* mutant: every result says the branch is new
returnedBranchInfo_AlwaysNew(p) ==
    [set |-> TRUE, baseBranch |-> p.baseBranch,
     workingBranch |-> p.workingBranch, isNewBranch |-> TRUE]

\* the result object returned after the checkout (lines 87-91, 167-171)
returnedBranchInfo(p) ==
    [set |-> TRUE, baseBranch |-> p.baseBranch,
     workingBranch |-> p.workingBranch, isNewBranch |-> (p.kind = "new")]

GitCheckout ==
    /\ pc = "checkout"
    /\ gitLog' = Append(gitLog, checkoutCommand(plan))
    /\ branchInfo' = returnedBranchInfo(plan)
    /\ pc' = "outputs"
    /\ UNCHANGED <<context, plan, lookups, outputs, error>>
    /\ inputsUnchanged

GitCheckoutFails ==
    /\ pc = "checkout"
    /\ gitLog' = Append(gitLog, checkoutCommand(plan))
    /\ error' = gitError(context, plan)
    /\ pc' = "failed"
    /\ UNCHANGED <<context, plan, lookups, branchInfo, outputs>>
    /\ inputsUnchanged

\* setupBranch, lines 218-222
SetOutputs ==
    /\ pc = "outputs"
    /\ outputs' = [set |-> TRUE, BASE_BRANCH |-> branchInfo.baseBranch,
                   WORKING_BRANCH |-> branchInfo.workingBranch,
                   IS_NEW_BRANCH |-> IF branchInfo.isNewBranch THEN "true"
                                                               ELSE "false"]
    /\ pc' = "done"
    /\ UNCHANGED <<context, plan, lookups, gitLog, branchInfo, error>>
    /\ inputsUnchanged

Next ==
    \/ ParseContext
    \/ ParseContextUnsupported
    \/ SetupFromPayload
    \/ SetupNoPR
    \/ LookupPR
    \/ LookupPRFails
    \/ GitFetch
    \/ GitFetchFails
    \/ GitCheckout
    \/ GitCheckoutFails
    \/ SetOutputs

Spec == Init /\ [][Next]_vars

----------------------------------------------------------------------------
(* Trigger detection (github/validation/trigger.ts: escapeRegExp,           *)
(* checkContainsTrigger / detectJunieTriggerPhrase), after section 4.1 of   *)
(* the specification and the tests of the trigger validation.               *)

\* longest text of a drawn text field
MaxTextLen == 3

\* \w of a JavaScript regular expression
IsWordChar(c) ==
    c \in Range(UpperLetters) \cup Range(LowerLetters) \cup Range(Digits)
              \cup {"_"}

\* the characters escapeRegExp puts a backslash before
RegExpMetaChars ==
    {".", "*", "+", "?", "^", "$", "{", "}", "(", ")", "|", "[", "]", "\\"}

\* mutant: the dot is left as it is
RECURSIVE escapeRegExp_DotUnescaped(_)
escapeRegExp_DotUnescaped(str) ==
    IF str = <<>> THEN <<>>
    ELSE (IF Head(str) \in RegExpMetaChars \ {"."} THEN <<"\\", Head(str)>>
                                                   ELSE <<Head(str)>>)
         \o escapeRegExp_DotUnescaped(Tail(str))

RECURSIVE escapeRegExp(_)
escapeRegExp(str) ==
    IF str = <<>> THEN <<>>
    ELSE (IF Head(str) \in RegExpMetaChars THEN <<"\\", Head(str)>>
                                           ELSE <<Head(str)>>)
         \o escapeRegExp(Tail(str))

\* the atoms of a pattern source: `\c` is the literal c, an unescaped `.`
\* is any character, any other character is itself
RECURSIVE patternAtoms(_)
patternAtoms(src) ==
    IF src = <<>> THEN <<>>
    ELSE IF Head(src) = "\\" /\ Len(src) >= 2
    THEN <<[any |-> FALSE, ch |-> src[2]]>> \o patternAtoms(SubSeq(src, 3, Len(src)))
    ELSE IF Head(src) = "."
    THEN <<[any |-> TRUE, ch |-> "."]>> \o patternAtoms(Tail(src))
    ELSE <<[any |-> FALSE, ch |-> Head(src)]>> \o patternAtoms(Tail(src))

\* mutant: the pattern is built without the i flag
atomMatches_CaseSensitive(atom, c) == atom.any \/ atom.ch = c

\* one atom against one character, under the i flag
atomMatches(atom, c) == atom.any \/ LowerChar(atom.ch) = LowerChar(c)

\* the atoms match the text from position i on
atomsMatchAt(atoms, text, i) ==
    /\ i + Len(atoms) - 1 <= Len(text)
    /\ \A k \in DOMAIN atoms : atomMatches(atoms[k], text[i + k - 1])

\* mutant: substring containment, no boundary on either side
phraseRegExpTest_NoBoundaries(phrase, text) ==
    LET atoms == patternAtoms(escapeRegExp(phrase))
    IN \E i \in 1..(Len(text) + 1) : atomsMatchAt(atoms, text, i)

\* new RegExp(`(^|\W)${escapeRegExp(phrase)}(\W|$)`, "i").test(text)
phraseRegExpTest(phrase, text) ==
    LET atoms == patternAtoms(escapeRegExp(phrase))
    IN \E i \in 1..(Len(text) + 1) :
          /\ atomsMatchAt(atoms, text, i)
          /\ i = 1 \/ ~IsWordChar(text[i - 1])
          /\ i + Len(atoms) - 1 = Len(text)
                \/ ~IsWordChar(text[i + Len(atoms)])

\* mutant: a null field is coerced to the string "null"
fieldText_NullCoerced(f) ==
    IF f.isNull THEN <<"n", "u", "l", "l">> ELSE f.text

\* a null or missing text field reads as the empty string
fieldText(f) == IF f.isNull THEN <<>> ELSE f.text

\* the configured assignee with one leading "@" removed
stripAt(name) == IF name # <<>> /\ Head(name) = "@" THEN Tail(name) ELSE name

\* mutant: the login is compared without regard to letter case
assigneePathMatches_IgnoreCase(event, config) ==
    /\ event.kind = "issues"
    /\ event.action = "assigned"
    /\ config.assigneeTrigger # <<>>
    /\ event.assigneeLogin # <<>>
    /\ toLowerCase(stripAt(config.assigneeTrigger))
          = toLowerCase(event.assigneeLogin)

assigneePathMatches(event, config) ==
    /\ event.kind = "issues"
    /\ event.action = "assigned"
    /\ config.assigneeTrigger # <<>>
    /\ event.assigneeLogin # <<>>
    /\ stripAt(config.assigneeTrigger) = event.assigneeLogin

\* mutant: any label triggers once a label trigger is configured
labelPathMatches_AnyLabel(event, config) ==
    /\ event.action = "labeled"
    /\ config.labelTrigger # <<>>
    /\ event.labelName # <<>>

labelPathMatches(event, config) ==
    /\ event.action = "labeled"
    /\ config.labelTrigger # <<>>
    /\ event.labelName # <<>>
    /\ config.labelTrigger = event.labelName

phrasePathMatches(event, config) ==
    \E k \in DOMAIN event.textFields :
        phraseRegExpTest(config.phrase, fieldText(event.textFields[k]))

\* detect(event, config)
detect(event, config) ==
    IF assigneePathMatches(event, config) THEN TRUE
    ELSE IF labelPathMatches(event, config) THEN TRUE
    ELSE IF phrasePathMatches(event, config) THEN TRUE
    ELSE FALSE

T_at_j == <<"@", "j">>
T_j == <<"j">>
T_dot == <<"j", ".", "j">>
T_null == <<"n", "u", "l", "l">>

TextChars == {"@", "j", "J", "-", "."}

Texts == UNION {[1..n -> TextChars] : n \in 0..MaxTextLen}

TriggerPhrases == {T_at_j, T_j, T_dot, T_null}

NullField == [isNull |-> TRUE, text |-> <<>>]

DrawnFields == {[isNull |-> FALSE, text |-> t] : t \in Texts} \cup {NullField}

\* the other text field of an event with two
OtherFields ==
    {NullField} \cup
    {[isNull |-> FALSE, text |-> t] :
        t \in {<<>>, <<"@", "J", "-", "J", ".", "j">>, <<"a", "j", ".", "j", "a">>}}

\* event kinds with the actions drawn and the number of text fields
TrigShapes ==
    {[kind |-> "issues", action |-> a, n |-> 2] :
        a \in {"opened", "assigned", "labeled"}}
    \cup {[kind |-> "pull_request", action |-> a, n |-> 2] :
        a \in {"opened", "labeled"}}
    \cup {[kind |-> "issue_comment", action |-> "created", n |-> 1],
          [kind |-> "pull_request_review", action |-> "submitted", n |-> 1],
          [kind |-> "pull_request_review_comment", action |-> "created", n |-> 1]}

\* assignee / label configuration together with the event's assignee / label
TrigSides ==
    {[assigneeTrigger |-> at, assigneeLogin |-> al, labelTrigger |-> <<>>,
      labelName |-> <<>>] :
        at \in {T_at_j}, al \in {<<>>, T_j, <<"J">>}}
    \cup
    {[assigneeTrigger |-> <<>>, assigneeLogin |-> <<>>, labelTrigger |-> <<>>,
      labelName |-> <<>>]}
    \cup
    {[assigneeTrigger |-> <<>>, assigneeLogin |-> <<>>, labelTrigger |-> lt,
      labelName |-> ln] :
        lt \in {T_j}, ln \in {<<>>, T_j, <<"a">>}}

TrigEvents ==
    {[kind |-> sh.kind, action |-> sh.action,
      textFields |-> IF sh.n = 2 THEN <<o, f>> ELSE <<f>>,
      assigneeLogin |-> sd.assigneeLogin, labelName |-> sd.labelName] :
        sh \in TrigShapes, sd \in TrigSides, f \in DrawnFields,
        o \in OtherFields}

BranchIdle ==
    /\ eventName = "schedule"
    /\ payload = NoPayload
    /\ actor = "alice"
    /\ tokenOwner = "alice"
    /\ env \in {e \in Envs : e.baseBranch = <<>> /\ ~e.createNewBranchForPR
                             /\ Len(e.runId) < LongRunIdLen}
    /\ repoPR = NoPR
    /\ context = NoContext
    /\ pc = "idle"
    /\ plan = NoPlan
    /\ lookups = 0
    /\ gitLog = <<>>
    /\ branchInfo = NoBranchInfo
    /\ outputs = NoOutputs
    /\ error = NoError

InitTrigger ==
    /\ BranchIdle
    /\ MoreIdle
    /\ \E sd \in TrigSides, ph \in TriggerPhrases :
          /\ trigConfig = [phrase |-> ph, assigneeTrigger |-> sd.assigneeTrigger,
                           labelTrigger |-> sd.labelTrigger]
          /\ trigEvent \in {e \in TrigEvents :
                               /\ e.assigneeLogin = sd.assigneeLogin
                               /\ e.labelName = sd.labelName}
    /\ trigPc = "ready"
    /\ trigResult = FALSE

\* checkContainsTrigger(context)
Detect ==
    /\ trigPc = "ready"
    /\ trigResult' = detect(trigEvent, trigConfig)
    /\ trigPc' = "done"
    /\ UNCHANGED <<trigEvent, trigConfig, branchVars, moreVars>>

NextTrigger == Detect

SpecTrigger == InitTrigger /\ [][NextTrigger]_vars

----------------------------------------------------------------------------
(* escapeRegExp on its own *)

MaxEscLen == 2

EscChars == RegExpMetaChars \cup {"@", "j"}

EscInputs == UNION {[1..n -> EscChars] : n \in 0..MaxEscLen}

\* the strings a pattern is tried on
EscTexts == UNION {[1..n -> {".", "\\", "@", "j"}] : n \in 0..MaxEscLen}

\* one atom against one character, no flag
atomMatchesExact(atom, c) == atom.any \/ atom.ch = c

\* new RegExp(`^${src}$`).test(text)
patternMatchesWhole(src, text) ==
    LET atoms == patternAtoms(src)
    IN /\ Len(atoms) = Len(text)
       /\ \A k \in DOMAIN atoms : atomMatchesExact(atoms[k], text[k])

InitEscape ==
    /\ BranchIdle
    /\ TrigIdle
    /\ MoreIdleBut("escape")
    /\ escInput \in EscInputs
    /\ escOutput = <<>>
    /\ escPc = "ready"

\* escapeRegExp(escInput)
Escape ==
    /\ escPc = "ready"
    /\ escOutput' = escapeRegExp(escInput)
    /\ escPc' = "done"
    /\ UNCHANGED <<escInput, branchVars, trigVars, taskVars, retryVars,
                   stepVars, lateVars>>

NextEscape == Escape

SpecEscape == InitEscape /\ [][NextEscape]_vars

----------------------------------------------------------------------------
(* github/validation/input-size.ts, github/junie/junie-tasks.ts *)

MAX_INPUT_SIZE == 19000

\* the length of the very large input of the tests
VeryLargeSize == 50000

SizeSlack == 2

\* lengths of texts: near zero, around the limit, far above it
Sizes ==
    (0..SizeSlack)
    \cup ((MAX_INPUT_SIZE - SizeSlack)..(MAX_INPUT_SIZE + SizeSlack))
    \cup {VeryLargeSize}

tooLargeMessage(actualSize, inputName) ==
    <<"Input \"", inputName, "\" is too large: ">>
    \o NumberToString(actualSize)
    \o <<" characters (maximum: ">>
    \o NumberToString(MAX_INPUT_SIZE)
    \o <<"). This limit exists because GitHub workflow_dispatch inputs are limited to 20KB. Please reduce the size of your ",
         inputName, " and try again.">>

\* mutant: an input of exactly the maximum is rejected too
validateInputSize_RejectsAtLimit(actualSize, inputName) ==
    IF actualSize >= MAX_INPUT_SIZE
    THEN [called |-> TRUE, size |-> actualSize, inputName |-> inputName,
          ok |-> FALSE]
    ELSE [called |-> TRUE, size |-> actualSize, inputName |-> inputName,
          ok |-> TRUE]

\* validateInputSize(input, inputName), input.length = actualSize
validateInputSize(actualSize, inputName) ==
    IF actualSize > MAX_INPUT_SIZE
    THEN [called |-> TRUE, size |-> actualSize, inputName |-> inputName,
          ok |-> FALSE]
    ELSE [called |-> TRUE, size |-> actualSize, inputName |-> inputName,
          ok |-> TRUE]

isIssuesEvent(c) == c.eventName = "issues"

isIssueCommentEvent(c) == c.eventName = "issue_comment"

\* the name the event's block passes to getValidatedTextTask; "" for an
\* event no block of prepareJunieTask handles
taskType(c) ==
    IF isIssueCommentEvent(c) /\ ~c.isPR THEN "issue-comment"
    ELSE IF isIssuesEvent(c) THEN "issue"
    ELSE IF isIssueCommentEvent(c) /\ c.isPR THEN "pr-comment"
    ELSE IF isPullRequestReviewEvent(c) THEN "pr-review"
    ELSE IF isPullRequestReviewCommentEvent(c) THEN "pr-review-comment"
    ELSE IF isPullRequestEvent(c) THEN "pull-request"
    ELSE ""

isMergeTask_InputOnly(c) == c.inputs.resolveConflicts

isMergeTask(c) == c.inputs.resolveConflicts \/ c.resolvePhrase

\* context.inputs.prompt || undefined
customPrompt(c) ==
    IF c.inputs.prompt.defined /\ c.inputs.prompt.len > 0
    THEN c.inputs.prompt ELSE NoText

\* !taskText
isFalsyText(t) == ~t.defined \/ t.len = 0

\* events whose payload holds a comment or a review
CommentOrReviewEvents ==
    {"issue_comment", "pull_request_review", "pull_request_review_comment"}

TkContexts ==
    {[eventName |-> n, isPR |-> pr,
      inputs |-> [prompt |-> pt, resolveConflicts |-> rc],
      resolvePhrase |-> rp] :
        n \in SupportedEvents, pr \in BOOLEAN,
        pt \in {NoText} \cup {Text(k) : k \in Sizes},
        rc \in BOOLEAN, rp \in BOOLEAN}

InitTask ==
    /\ BranchIdle
    /\ TrigIdle
    /\ MoreIdleBut("task")
    /\ tkContext \in
          {c \in TkContexts :
              /\ c.isPR = (\/ c.eventName \in PullRequestEvents
                           \/ c.eventName = "issue_comment" /\ c.isPR)
              /\ c.resolvePhrase => c.eventName \in CommentOrReviewEvents}
    /\ tkBranchInfo \in
          {[baseBranch |-> B_main, prBaseBranch |-> pb] :
              pb \in {<<>>, B_develop}}
    /\ tkPc = "start"
    /\ tkValidated = NoValidation
    /\ tkTaskText = NoText
    /\ tkOutput = NoCliInput
    /\ tkReturn = NoCliInput
    /\ tkError = <<>>

taskOthersUnchanged ==
    UNCHANGED <<tkContext, tkBranchInfo, branchVars, trigVars, escVars,
                retryVars, stepVars, lateVars>>

\* prepareJunieTask, merge task: returns before anything else is done
PrepareMergeTask ==
    /\ tkPc = "start"
    /\ isMergeTask(tkContext)
    /\ tkReturn' =
          [kind |-> "merge", task |-> NoText,
           branch |-> IF tkBranchInfo.prBaseBranch # <<>>
                      THEN tkBranchInfo.prBaseBranch
                      ELSE tkBranchInfo.baseBranch]
    /\ tkPc' = "returned"
    /\ UNCHANGED <<tkValidated, tkTaskText, tkOutput, tkError>>
    /\ taskOthersUnchanged

\* the end of prepareJunieTask with the local taskText = t
emitTask(t) ==
    IF isFalsyText(t)
    THEN /\ tkError' = <<"No task was created. Please check your inputs.">>
         /\ tkPc' = "failed"
         /\ UNCHANGED <<tkOutput, tkReturn>>
    ELSE /\ tkOutput' = [kind |-> "task", task |-> t, branch |-> <<>>]
         /\ tkReturn' = [kind |-> "task", task |-> t, branch |-> <<>>]
         /\ tkPc' = "returned"
         /\ UNCHANGED tkError

\* prepareJunieTask on an event none of its blocks handles: taskText is the
\* custom prompt as it is
PrepareFromPromptOnly ==
    /\ tkPc = "start"
    /\ ~isMergeTask(tkContext)
    /\ taskType(tkContext) = ""
    /\ tkTaskText' = customPrompt(tkContext)
    /\ emitTask(customPrompt(tkContext))
    /\ UNCHANGED tkValidated
    /\ taskOthersUnchanged

\* prepareJunieTask up to the await of the GraphQL fetch of its block
BeginFetch ==
    /\ tkPc = "start"
    /\ ~isMergeTask(tkContext)
    /\ taskType(tkContext) # ""
    /\ tkTaskText' = customPrompt(tkContext)
    /\ tkPc' = "fetch"
    /\ UNCHANGED <<tkValidated, tkOutput, tkReturn, tkError>>
    /\ taskOthersUnchanged

\* fetchIssueData / fetchPullRequestData rejects
FetchRejects ==
    /\ tkPc = "fetch"
    /\ tkError' = <<"GraphQL request failed">>
    /\ tkPc' = "failed"
    /\ UNCHANGED <<tkValidated, tkTaskText, tkOutput, tkReturn>>
    /\ taskOthersUnchanged

\* the review of the event is not among the reviews fetched
ReviewNotFound ==
    /\ tkPc = "fetch"
    /\ isPullRequestReviewEvent(tkContext)
    /\ tkError' = <<"Review not found in PR">>
    /\ tkPc' = "failed"
    /\ UNCHANGED <<tkValidated, tkTaskText, tkOutput, tkReturn>>
    /\ taskOthersUnchanged

\* the fetch resolves and the formatter builds the prompt; up to the await
\* of downloadAttachmentsAndRewriteText
FetchResolves ==
    /\ tkPc = "fetch"
    /\ tkPc' = "download"
    /\ UNCHANGED <<tkValidated, tkTaskText, tkOutput, tkReturn, tkError>>
    /\ taskOthersUnchanged

\* getValidatedTextTask after the download, the text too large
ValidationRejects ==
    /\ tkPc = "download"
    /\ \E n \in Sizes :
          LET v == validateInputSize(n, taskType(tkContext))
          IN /\ ~v.ok
             /\ tkValidated' = v
             /\ tkError' = tooLargeMessage(n, taskType(tkContext))
    /\ tkPc' = "failed"
    /\ UNCHANGED <<tkTaskText, tkOutput, tkReturn>>
    /\ taskOthersUnchanged

\* getValidatedTextTask after the download, the text accepted, and the rest
\* of prepareJunieTask
ValidationAccepts ==
    /\ tkPc = "download"
    /\ \E n \in Sizes :
          LET v == validateInputSize(n, taskType(tkContext))
          IN /\ v.ok
             /\ tkValidated' = v
             /\ tkTaskText' = Text(n)
             /\ emitTask(Text(n))
    /\ taskOthersUnchanged

NextTask ==
    \/ PrepareMergeTask
    \/ PrepareFromPromptOnly
    \/ BeginFetch
    \/ FetchRejects
    \/ ReviewNotFound
    \/ FetchResolves
    \/ ValidationRejects
    \/ ValidationAccepts

SpecTask == InitTask /\ [][NextTask]_vars

----------------------------------------------------------------------------
(* github/api/graphql-data-fetcher.ts: executeGraphQLWithRetry *)

\* the option `retries` given to pRetry
retries == 3

\* statuses the callback throws an AbortError for
AbortStatuses == {404, 422, 401, 403}

\* statuses of failures thrown as they are; 0 is an error without a status
\* (network)
TransientStatuses == {0, 429, 500}

\* what a successful call returns
Responses == {"response-a", "response-b"}

\* mutant: authentication errors are thrown as they are
isAbortStatus_AuthRetried(status) == status \in {404, 422}

isAbortStatus(status) == status \in AbortStatuses

\* mutant: one retry more than configured
retriesLeft_OneMore(attemptNumber) == retries + 1 - (attemptNumber - 1)

\* pRetry: the retries left after the failed attempt of this number
retriesLeft(attemptNumber) == retries - (attemptNumber - 1)

\* mutant: with no retry left the promise resolves without a value
exhaustedOutcome_Resolves(status) ==
    [kind |-> "resolved", status |-> status, data |-> ""]

\* pRetry with no retry left: the promise rejects with the last error
exhaustedOutcome(status) ==
    [kind |-> "rejected", status |-> status, data |-> ""]

InitRetry ==
    /\ BranchIdle
    /\ TrigIdle
    /\ MoreIdleBut("retry")
    /\ rtPc = "running"
    /\ rtLog = <<>>
    /\ rtOutcome = NoOutcome

retryOthersUnchanged ==
    UNCHANGED <<branchVars, trigVars, escVars, taskVars, stepVars, lateVars>>

\* octokit.graphql resolves: pRetry resolves with its value
AttemptResolves ==
    /\ rtPc = "running"
    /\ \E d \in Responses :
          /\ rtLog' = Append(rtLog, [status |-> 200, data |-> d])
          /\ rtOutcome' = [kind |-> "resolved", status |-> 200, data |-> d]
    /\ rtPc' = "resolved"
    /\ retryOthersUnchanged

\* octokit.graphql rejects; the callback throws an AbortError for a
\* permanent status, the error itself otherwise; pRetry rejects on an
\* AbortError or with no retry left and calls again otherwise
AttemptFails ==
    /\ rtPc = "running"
    /\ \E st \in AbortStatuses \cup TransientStatuses :
          /\ rtLog' = Append(rtLog, [status |-> st, data |-> ""])
          /\ IF isAbortStatus(st)
             THEN /\ rtOutcome' =
                       [kind |-> "rejected", status |-> st, data |-> ""]
                  /\ rtPc' = "rejected"
             ELSE IF retriesLeft(Len(rtLog) + 1) <= 0
             THEN /\ rtOutcome' = exhaustedOutcome(st)
                  /\ rtPc' = exhaustedOutcome(st).kind
             ELSE /\ rtPc' = "running"
                  /\ UNCHANGED rtOutcome
    /\ retryOthersUnchanged

NextRetry ==
    \/ AttemptResolves
    \/ AttemptFails

SpecRetry == InitRetry /\ [][NextRetry]_vars

\* an awaited call settles and the backoff timer (at most maxTimeout) fires
SpecRetryFair == SpecRetry /\ WF_vars(NextRetry)

----------------------------------------------------------------------------
(* entrypoints: prepare.ts, handle-results.ts, create-pr.ts *)

\* the operations inside the try block of each entrypoint, in order
stepOperations(step) ==
    IF step = "prepare"
    THEN <<"setupGitHubToken", "createOctokit", "getTokenOwnerInfo",
           "parseGitHubContext", "prepare">>
    ELSE IF step = "handle-results"
    THEN <<"JSON.parse(JSON_JUNIE_OUTPUT)", "JSON.parse(PARSED_CONTEXT)",
           "junieErrors", "checkForChangedFiles", "checkForUnpushedCommits",
           "exportResultsOutputs">>
    ELSE <<"JSON.parse(PARSED_CONTEXT)", "octokit.rest.pulls.create",
           "setOutput(pull-request-url)">>

Steps == {"prepare", "handle-results", "create-pr"}

\* the operations of getActionToDo that catch what their git command throws
\* and return false
SwallowingOperations == {"checkForChangedFiles", "checkForUnpushedCommits"}

nextOperation == stepOperations(stStep)[Len(stDone) + 1]

stepFailurePrefix(step) ==
    IF step = "prepare" THEN "Prepare step failed with error: "
    ELSE IF step = "handle-results"
    THEN "Handle results step failed with error: "
    ELSE "Create PR step failed with error: "

ErrorTexts ==
    {"Unsupported event type: release", "Input \"prompt\" is too large",
     "Failed to fetch PR", ""}

\* what an operation throws: an Error with a message, or another value
ThrownValues == [isError : BOOLEAN, text : ErrorTexts]

\* error instanceof Error ? error.message : String(error)
errorMessage(thrown) == thrown.text

\* the catch block of the entrypoint
catchBlock(step, thrown) ==
    [exited |-> TRUE, exitCode |-> 1,
     failed |-> <<stepFailurePrefix(step), errorMessage(thrown)>>,
     exceptionSet |-> TRUE, exception |-> errorMessage(thrown)]

InitStep ==
    /\ BranchIdle
    /\ TrigIdle
    /\ MoreIdleBut("step")
    /\ stStep \in Steps
    /\ stDone = <<>>
    /\ stThrown = NoThrown
    /\ stReport = NoReport

stepOthersUnchanged ==
    UNCHANGED <<stStep, branchVars, trigVars, escVars, taskVars, retryVars,
                lateVars>>

\* the next operation of the try block completes
OperationCompletes ==
    /\ ~stReport.exited
    /\ Len(stDone) < Len(stepOperations(stStep)) - 1
    /\ stDone' = Append(stDone, nextOperation)
    /\ UNCHANGED <<stThrown, stReport>>
    /\ stepOthersUnchanged

\* the last operation completes: the entrypoint returns, the process ends
\* with status 0
LastOperationCompletes ==
    /\ ~stReport.exited
    /\ Len(stDone) = Len(stepOperations(stStep)) - 1
    /\ stDone' = Append(stDone, nextOperation)
    /\ stReport' = [NoReport EXCEPT !.exited = TRUE]
    /\ UNCHANGED stThrown
    /\ stepOthersUnchanged

\* execSync throws inside checkForChangedFiles / checkForUnpushedCommits:
\* the error is logged, false is returned and handleResults goes on
GitCheckThrows ==
    /\ ~stReport.exited
    /\ nextOperation \in SwallowingOperations
    /\ \E thrown \in ThrownValues :
          stThrown' = [at |-> Len(stDone) + 1, isError |-> thrown.isError,
                       text |-> thrown.text]
    /\ stDone' = Append(stDone, nextOperation)
    /\ UNCHANGED stReport
    /\ stepOthersUnchanged

\* the next operation throws: the catch block runs and the process exits
OperationThrows ==
    /\ ~stReport.exited
    /\ nextOperation \notin SwallowingOperations
    /\ \E thrown \in ThrownValues :
          /\ stThrown' = [at |-> Len(stDone) + 1, isError |-> thrown.isError,
                          text |-> thrown.text]
          /\ stReport' = catchBlock(stStep, thrown)
    /\ UNCHANGED stDone
    /\ stepOthersUnchanged

NextStep ==
    \/ OperationCompletes
    \/ LastOperationCompletes
    \/ GitCheckThrows
    \/ OperationThrows

SpecStep == InitStep /\ [][NextStep]_vars

----------------------------------------------------------------------------
(* entrypoints/handle-results.ts: handleResults, getActionToDo *)

\* the lengths of junieOutput.taskName the model tells apart
MaxTitleLen == 1

\* the entity number of the context, 0 when it has none
IssueIds == {0, 7}

ActionTypes == {"WRITE_COMMENT", "CREATE_PR", "COMMIT_CHANGES", "PUSH",
                "NOTHING"}

\* junieOutput.errors: absent, empty, or a list of messages
HrErrors ==
    {NoErrors} \cup
    {[defined |-> TRUE, list |-> l] : l \in {<<>>, <<"e1">>, <<"e1", "e2">>}}

HrInputs ==
    [errors : HrErrors, silentMode : BOOLEAN, initCommentId : BOOLEAN,
     isNewBranch : BOOLEAN, issueId : IssueIds, titleLen : 0..MaxTitleLen]

\* what execSync does with a git command: it prints something, prints
\* nothing, or throws
GitOutcomes == {"output", "empty", "throws"}

hasJunieErrors_OnlySeveral(errors) == errors.defined /\ Len(errors.list) > 1

\* junieErrors && junieErrors.length > 0
hasJunieErrors(errors) == errors.defined /\ Len(errors.list) > 0

\* checkForChangedFiles / checkForUnpushedCommits: the trimmed output is not
\* empty; false when execSync throws
checkResult(outcome) == outcome = "output"

getActionToDo_UnpushedFirst(silentMode, changed, unpushed, initCommentId, isNewBranch) ==
    IF silentMode THEN "NOTHING"
    ELSE IF ~changed /\ ~unpushed /\ initCommentId THEN "WRITE_COMMENT"
    ELSE IF unpushed THEN "PUSH"
    ELSE IF changed /\ isNewBranch THEN "CREATE_PR"
    ELSE IF changed /\ ~isNewBranch THEN "COMMIT_CHANGES"
    ELSE "NOTHING"

\* the action getActionToDo returns
getActionToDo(silentMode, changed, unpushed, initCommentId, isNewBranch) ==
    IF silentMode THEN "NOTHING"
    ELSE IF ~changed /\ ~unpushed /\ initCommentId THEN "WRITE_COMMENT"
    ELSE IF ~changed /\ unpushed THEN "PUSH"
    ELSE IF changed /\ isNewBranch THEN "CREATE_PR"
    ELSE IF changed /\ ~isNewBranch THEN "COMMIT_CHANGES"
    ELSE "NOTHING"

\* the length of COMMIT_MESSAGE_TEMPLATE(title, issueId): "[issue-N]\n\n",
\* when there is an issue id, then the title
commitMessageLen(titleLen, issueId) ==
    (IF issueId # 0 THEN 11 ELSE 0) + titleLen

\* the switch of handleResults with exportResultsOutputs: the outputs set
\* for the action chosen
exportResultsOutputs(action, in) ==
    {"JUNIE_TITLE", "JUNIE_SUMMARY"}
    \cup (IF action \in {"CREATE_PR", "COMMIT_CHANGES", "PUSH"}
             /\ commitMessageLen(in.titleLen, in.issueId) > 0
          THEN {"COMMIT_MESSAGE"} ELSE {})
    \cup (IF action = "CREATE_PR" THEN {"PR_TITLE", "PR_BODY"} ELSE {})

InitResults ==
    /\ BranchIdle
    /\ TrigIdle
    /\ MoreIdleBut("results")
    /\ hrIn \in HrInputs
    /\ hrPc = "start"
    /\ hrGit = <<>>
    /\ hrAction = ""
    /\ hrOutputs = {}
    /\ hrReport = NoHrReport

resultsOthersUnchanged ==
    UNCHANGED <<hrIn, branchVars, trigVars, escVars, taskVars, retryVars,
                stepVars, feedbackVars, accessVars>>

\* the agent reported errors: handleResults throws, its catch block calls
\* setFailed and exits with status 1
JunieErrorsThrow ==
    /\ hrPc = "start"
    /\ hasJunieErrors(hrIn.errors)
    /\ hrReport' = [exited |-> TRUE, exitCode |-> 1,
                    failed |-> <<"Handle results step failed with error: ",
                                 "Junie run failed with errors: ">>,
                    errors |-> hrIn.errors.list]
    /\ hrOutputs' = {"EXCEPTION"}
    /\ hrPc' = "failed"
    /\ UNCHANGED <<hrGit, hrAction>>
    /\ resultsOthersUnchanged

\* silent mode: getActionToDo returns NOTHING at once, title and summary
\* are exported
SilentModeNothing ==
    /\ hrPc = "start"
    /\ ~hasJunieErrors(hrIn.errors)
    /\ hrIn.silentMode
    /\ hrAction' = getActionToDo(TRUE, FALSE, FALSE, hrIn.initCommentId,
                                 hrIn.isNewBranch)
    /\ hrOutputs' = exportResultsOutputs(hrAction', hrIn)
    /\ hrReport' = [NoHrReport EXCEPT !.exited = TRUE]
    /\ hrPc' = "done"
    /\ UNCHANGED hrGit
    /\ resultsOthersUnchanged

\* checkForChangedFiles runs git status
GitStatus ==
    /\ hrPc = "start"
    /\ ~hasJunieErrors(hrIn.errors)
    /\ ~hrIn.silentMode
    /\ \E outcome \in GitOutcomes :
          hrGit' = Append(hrGit, [cmd |-> "git status --porcelain",
                                  outcome |-> outcome])
    /\ hrPc' = "log"
    /\ UNCHANGED <<hrAction, hrOutputs, hrReport>>
    /\ resultsOthersUnchanged

\* checkForUnpushedCommits runs git log; the action is chosen, ACTION_TO_DO
\* and the results are exported and handleResults returns
GitLogAndExport ==
    /\ hrPc = "log"
    /\ \E outcome \in GitOutcomes :
          /\ hrGit' = Append(hrGit, [cmd |-> "git log @{u}..HEAD --oneline",
                                     outcome |-> outcome])
          /\ hrAction' = getActionToDo(FALSE, checkResult(hrGit[1].outcome),
                                       checkResult(outcome),
                                       hrIn.initCommentId, hrIn.isNewBranch)
    /\ hrOutputs' = {"ACTION_TO_DO"} \cup exportResultsOutputs(hrAction', hrIn)
    /\ hrReport' = [NoHrReport EXCEPT !.exited = TRUE]
    /\ hrPc' = "done"
    /\ resultsOthersUnchanged

NextResults ==
    \/ JunieErrorsThrow
    \/ SilentModeNothing
    \/ GitStatus
    \/ GitLogAndExport

SpecResults == InitResults /\ [][NextResults]_vars

----------------------------------------------------------------------------
(* github/operations/comments/feedback.ts: writeInitialFeedbackComment *)

\* the entity numbers of the model; 0 stands for undefined
EntityNumbers == {0, 7, 8}

\* the ids GitHub gives to a created comment
CommentIds == {101, 102}

\* events whose payload always names an issue or a pull request
EntityEvents ==
    {"issue_comment", "issues", "pull_request", "pull_request_review",
     "pull_request_review_comment"}

\* events that may or may not come with the number of a pull request
MaybeEntityEvents == {"workflow_dispatch"}

FbContexts ==
    {c \in [eventName : EntityEvents \cup MaybeEntityEvents \cup {"push"},
            entityNumber : EntityNumbers, silentMode : BOOLEAN] :
        /\ c.eventName \in EntityEvents => c.entityNumber # 0
        /\ c.eventName = "push" => c.entityNumber = 0}

InitFeedback ==
    /\ BranchIdle
    /\ TrigIdle
    /\ MoreIdleBut("feedback")
    /\ fbContext \in FbContexts
    /\ fbPc = "start"
    /\ fbCalls = <<>>
    /\ fbOutput = 0
    /\ fbReturn = NoFbReturn

feedbackOthersUnchanged ==
    UNCHANGED <<fbContext, branchVars, trigVars, escVars, taskVars, retryVars,
                stepVars, resultVars, accessVars>>

\* the REST call the function makes for the context
feedbackCall(c) ==
    IF isPullRequestReviewCommentEvent(c)
    THEN [api |-> "pulls.createReplyForReviewComment",
          number |-> c.entityNumber]
    ELSE [api |-> "issues.createComment", number |-> c.entityNumber]

\* the function reaches one of its two REST calls
postsComment(c) == isPullRequestReviewCommentEvent(c) \/ c.entityNumber # 0

\* the comment or the reply is created: INIT_COMMENT_ID is set, the id is
\* returned
CreateCommentResolves ==
    /\ fbPc = "start"
    /\ postsComment(fbContext)
    /\ fbCalls' = Append(fbCalls, feedbackCall(fbContext))
    /\ \E id \in CommentIds :
          /\ fbOutput' = id
          /\ fbReturn' = [kind |-> "id", id |-> id]
    /\ fbPc' = "returned"
    /\ feedbackOthersUnchanged

\* the REST call rejects: the error is thrown again with its diagnostics
CreateCommentRejects ==
    /\ fbPc = "start"
    /\ postsComment(fbContext)
    /\ fbCalls' = Append(fbCalls, feedbackCall(fbContext))
    /\ fbReturn' = [kind |-> "thrown", id |-> 0]
    /\ fbPc' = "failed"
    /\ UNCHANGED fbOutput
    /\ feedbackOthersUnchanged

\* no entity number and no review comment: nothing is posted
SkipInitialComment ==
    /\ fbPc = "start"
    /\ ~postsComment(fbContext)
    /\ fbReturn' = [kind |-> "undefined", id |-> 0]
    /\ fbPc' = "returned"
    /\ UNCHANGED <<fbCalls, fbOutput>>
    /\ feedbackOthersUnchanged

NextFeedback ==
    \/ CreateCommentResolves
    \/ CreateCommentRejects
    \/ SkipInitialComment

SpecFeedback == InitFeedback /\ [][NextFeedback]_vars

----------------------------------------------------------------------------
(* github/validation/permissions.ts: verifyRepositoryAccess *)

BotSuffix == <<"[", "b", "o", "t", "]">>

U_a == <<"a">>

U_ab == <<"a", "b">>

U_bot == <<"b", "o", "t">>

U_app == <<"a">> \o BotSuffix

U_suffixOnly == BotSuffix

U_prefixed == BotSuffix \o <<"a">>

U_upper == <<"a", "[", "B", "O", "T", "]">>

U_open == <<"a", "[", "b", "o", "t">>

Actors ==
    {U_a, U_ab, U_bot, U_app, U_suffixOnly, U_prefixed, U_upper, U_open}

Repositories == {"test-owner/test-repo", "acme/widgets"}

\* response.data.permission
PermissionLevels == {"admin", "write", "read", "none"}

\* how getCollaboratorPermissionLevel rejects: an Error whose message holds
\* 404, another Error, a value that is not an Error
LookupFailures == {"Error: 404", "Error: other", "not an Error"}

\* actor.endsWith("[bot]")
isGitHubApp(login) ==
    /\ Len(login) >= Len(BotSuffix)
    /\ SubSeq(login, Len(login) - Len(BotSuffix) + 1, Len(login)) = BotSuffix

hasWriteAccess_ReadSuffices(permissionLevel) ==
    permissionLevel \in {"admin", "write", "read"}

\* permissionLevel === "admin" || permissionLevel === "write"
hasWriteAccess(permissionLevel) ==
    permissionLevel = "admin" \/ permissionLevel = "write"

\* the message of the Error thrown by the catch block
accessErrorText(failure) ==
    IF failure = "Error: 404"
    THEN "Failed to check permissions: User is not a collaborator"
    ELSE "Failed to check permissions for actor on repository"

InitAccess ==
    /\ BranchIdle
    /\ TrigIdle
    /\ MoreIdleBut("access")
    /\ acActor \in Actors
    /\ acRepo \in Repositories
    /\ acPc = "start"
    /\ acLookups = <<>>
    /\ acReturn = NoAcReturn

accessOthersUnchanged ==
    UNCHANGED <<acActor, acRepo, branchVars, trigVars, escVars, taskVars,
                retryVars, stepVars, resultVars, feedbackVars>>

\* a GitHub App: true is returned without a lookup
GitHubAppAllowed ==
    /\ acPc = "start"
    /\ isGitHubApp(acActor)
    /\ acReturn' = [kind |-> "value", value |-> TRUE, text |-> ""]
    /\ acPc' = "returned"
    /\ UNCHANGED acLookups
    /\ accessOthersUnchanged

\* octokit.repos.getCollaboratorPermissionLevel is called and awaited
BeginLookup ==
    /\ acPc = "start"
    /\ ~isGitHubApp(acActor)
    /\ acLookups' = Append(acLookups, [username |-> acActor, repo |-> acRepo,
                                       response |-> "pending"])
    /\ acPc' = "lookup"
    /\ UNCHANGED acReturn
    /\ accessOthersUnchanged

\* the lookup resolves with a permission level
LookupResolves ==
    /\ acPc = "lookup"
    /\ \E permissionLevel \in PermissionLevels :
          /\ acLookups' = [acLookups EXCEPT ![1].response = permissionLevel]
          /\ acReturn' = [kind |-> "value",
                          value |-> hasWriteAccess(permissionLevel),
                          text |-> ""]
    /\ acPc' = "returned"
    /\ accessOthersUnchanged

\* the lookup rejects: the catch block throws an Error that names the cause
LookupRejects ==
    /\ acPc = "lookup"
    /\ \E failure \in LookupFailures :
          /\ acLookups' = [acLookups EXCEPT ![1].response = failure]
          /\ acReturn' = [kind |-> "thrown", value |-> FALSE,
                          text |-> accessErrorText(failure)]
    /\ acPc' = "failed"
    /\ accessOthersUnchanged

NextAccess ==
    \/ GitHubAppAllowed
    \/ BeginLookup
    \/ LookupResolves
    \/ LookupRejects

SpecAccess == InitAccess /\ [][NextAccess]_vars

----------------------------------------------------------------------------
(* Branch selection: properties *)

\* the pull request the selection decided on
ThePR == IF prInPayload(context) THEN context.payload.pull_request ELSE repoPR

Decided == plan.kind # "none"

PlainCheckouts == {i \in DOMAIN gitLog : gitLog[i].cmd = "checkout"}

ReuseRule ==
    \/ ~context.inputs.createNewBranchForPR
    \/ context.actor = ThePR.author
    \/ ThePR.author = context.tokenOwner

C2_OpenPRReuseIff ==
    (Decided /\ inPRBlock(context) /\ ThePR.state = "OPEN") =>
        /\ (plan.kind = "existing") <=> ReuseRule
        /\ plan.kind = "existing" => plan.workingBranch = ThePR.head
        /\ branchInfo.set =>
              /\ (~branchInfo.isNewBranch) <=> ReuseRule
              /\ ~branchInfo.isNewBranch =>
                    /\ branchInfo.workingBranch = ThePR.head
                    /\ gitLog[Len(gitLog)] =
                          [cmd |-> "checkout", ref |-> ThePR.head,
                           start |-> <<>>]

C2_Witness ==
    /\ pc = "done"
    /\ inPRBlock(context)
    /\ ThePR.state = "OPEN"
    /\ context.inputs.createNewBranchForPR
    /\ context.actor # ThePR.author
    /\ ThePR.author = context.tokenOwner
    /\ ~branchInfo.isNewBranch
    /\ branchInfo.workingBranch = B_Fx

\* C3: for an OPEN PR with createNewBranchForPR set, an actor who is not the
\* PR author and a PR author who is not the token owner, a new branch is
\* created and the base branch of the result is the PR head branch, not the
\* PR base branch.
C3_ExternalContributorBase ==
    (Decided /\ inPRBlock(context) /\ ThePR.state = "OPEN" /\ ~ReuseRule) =>
        /\ plan.kind = "new"
        /\ plan.baseBranch = ThePR.head
        /\ \A i \in DOMAIN gitLog : gitLog[i].cmd = "checkout -b" =>
               gitLog[i].start = ThePR.head
        /\ branchInfo.set =>
              /\ branchInfo.isNewBranch
              /\ branchInfo.baseBranch = ThePR.head
              /\ branchInfo.baseBranch # ThePR.base

C3_Witness ==
    /\ pc = "done"
    /\ inPRBlock(context)
    /\ ThePR.state = "OPEN"
    /\ ~ReuseRule
    /\ branchInfo.isNewBranch
    /\ branchInfo.baseBranch = ThePR.head

\* C4: in a non-PR context (isPR not set: issue, comment on an issue, push,
\* workflow_dispatch, other automation events) no pull request is looked up
\* and every plan and every result is a new branch, whatever
\* createNewBranchForPR and the actor are.
C4_NonPRAlwaysNew ==
    (pc # "start" /\ error.kind # "UnsupportedEvent" /\ ~context.isPR) =>
        /\ lookups = 0
        /\ Decided => plan.kind = "new"
        /\ PlainCheckouts = {}
        /\ branchInfo.set => branchInfo.isNewBranch
        /\ outputs.set => outputs.IS_NEW_BRANCH = "true"

C4_Witness ==
    /\ pc = "done"
    /\ context.eventName = "issue_comment"
    /\ ~context.isPR
    /\ ~context.inputs.createNewBranchForPR
    /\ repoPR.present /\ repoPR.state = "OPEN"
    /\ branchInfo.isNewBranch

\* the ref with its leading refs/heads/ removed and nothing else changed
stripLeadingRefsHeads(ref) ==
    IF startsWith(ref, REFS_HEADS)
    THEN SubSeq(ref, Len(REFS_HEADS) + 1, Len(ref))
    ELSE ref

\* C5: in a non-PR context the base branch of the result is, for a push, the
\* pushed ref with its leading refs/heads/ removed and nothing else changed
\* (also when a base branch is configured); for any other event the
\* configured base branch if set, else the default branch.
C5_NonPRBaseBranch ==
    (branchInfo.set /\ ~context.isPR) =>
        branchInfo.baseBranch =
            IF context.eventName = "push"
            THEN stripLeadingRefsHeads(context.payload.ref)
            ELSE IF context.inputs.baseBranch # <<>>
                 THEN context.inputs.baseBranch
                 ELSE DEFAULT_BRANCH

\* C6: the name requested for a new branch is junie/<entityType>-<id>, with
\* entityType pr exactly when the context has a PR number, issue exactly
\* when it has an issue number and no PR, run exactly when it has neither;
\* id is the entity number in the first two cases, the run id in the third.
C6_RequestedBranchName ==
    (Decided /\ plan.kind = "new") =>
        LET hasPRNumber == context.isPR /\ context.entityNumber # 0
            hasIssueNumber == ~context.isPR /\ context.entityNumber # 0
        IN plan.branchName =
              WORKING_BRANCH_PREFIX \o
              (IF hasPRNumber
               THEN S_pr \o S_dash \o NumberToString(context.entityNumber)
               ELSE IF hasIssueNumber
               THEN S_issue \o S_dash \o NumberToString(context.entityNumber)
               ELSE S_run \o S_dash \o context.runId)

\* contexts that differ from the current one in anything but
\* (isPR, entityNumber, runId)
SameNameInputs ==
    {[context EXCEPT !.actor = a, !.tokenOwner = t, !.eventName = n,
                     !.inputs = [createNewBranchForPR |-> b, baseBranch |-> cb]] :
        a \in Logins, t \in Logins, n \in SupportedEvents, b \in BOOLEAN,
        cb \in ConfiguredBases}

\* C7: every workingBranch of a new branch has at most 50 characters and no
\* upper-case letter, and is determined by (isPR, entityNumber, runId).
C7_NewBranchNameNormalized ==
    (Decided /\ plan.kind = "new") =>
        /\ Len(plan.workingBranch) <= MaxBranchNameLen
        /\ \A i \in DOMAIN plan.workingBranch :
               ~IsUpperChar(plan.workingBranch[i])
        /\ pc = "fetch" =>
              \A c \in SameNameInputs :
                  normalizeBranchName(requestedBranchName(c)) = plan.workingBranch
        /\ branchInfo.set => branchInfo.workingBranch = plan.workingBranch

C7_Witness ==
    /\ pc = "done"
    /\ branchInfo.isNewBranch
    /\ Len(plan.branchName) > MaxBranchNameLen
    /\ \E i \in DOMAIN plan.branchName : IsUpperChar(plan.branchName[i])
    /\ Len(branchInfo.workingBranch) = MaxBranchNameLen

\* C8: when the PR lookup fails the selection ends in an error naming the PR
\* number and the repository, after exactly one lookup, with no git command
\* run, no BranchInfo returned and no branch output set, and nothing runs
\* afterwards; no run makes more than one lookup.
C8_LookupFailureIsFatal ==
    /\ lookups <= 1
    /\ error.kind = "FetchPRFailed" =>
          /\ error.entityNumber = context.entityNumber
          /\ error.entityNumber # 0
          /\ error.repoFullName = REPO_FULL_NAME
          /\ lookups = 1
          /\ pc = "failed"
          /\ gitLog = <<>>
          /\ ~Decided
          /\ ~branchInfo.set
          /\ ~outputs.set
          /\ ~ENABLED Next

C8_Witness ==
    /\ error.kind = "FetchPRFailed"
    /\ repoPR.present
    /\ context.eventName = "issue_comment"

----------------------------------------------------------------------------
(* Trigger detection: properties *)

\* the phrase occurs in the text at position i, letter case ignored
OccursAt(phrase, text, i) ==
    /\ i >= 1
    /\ i + Len(phrase) - 1 <= Len(text)
    /\ toLowerCase(SubSeq(text, i, i + Len(phrase) - 1)) = toLowerCase(phrase)

\* the occurrence at i is a token of its own: a non-word character or the
\* edge of the text on both sides
StandaloneAt(phrase, text, i) ==
    /\ OccursAt(phrase, text, i)
    /\ i = 1 \/ ~IsWordChar(text[i - 1])
    /\ i + Len(phrase) - 1 = Len(text) \/ ~IsWordChar(text[i + Len(phrase)])

HasStandalone(phrase, text) ==
    \E i \in 1..Len(text) : StandaloneAt(phrase, text, i)

HasOccurrence(phrase, text) ==
    \E i \in 1..Len(text) : OccursAt(phrase, text, i)

TrigTexts == {fieldText(trigEvent.textFields[k]) : k \in DOMAIN trigEvent.textFields}

NoSideMatch ==
    /\ ~assigneePathMatches(trigEvent, trigConfig)
    /\ ~labelPathMatches(trigEvent, trigConfig)

\* C9: if any one text field holds the trigger phrase as a standalone token
\* (non-word character or text edge before and after), in any letter case,
\* detect returns true, whatever the other fields hold.
C9_StandalonePhraseTriggers ==
    (/\ trigPc = "done"
     /\ \E t \in TrigTexts : HasStandalone(trigConfig.phrase, t))
    => trigResult = TRUE

C9_Witness ==
    /\ trigPc = "done"
    /\ trigResult = TRUE
    /\ NoSideMatch
    /\ trigConfig.phrase = T_at_j
    /\ Len(trigEvent.textFields) = 2
    /\ trigEvent.textFields[1].isNull
    /\ trigEvent.textFields[2].text = <<"-", "@", "J">>

\* C10: if the trigger phrase occurs in the text fields, but every occurrence
\* has a word character right before or right after it (it is part of a
\* longer token), and neither the assignee nor the label path matches,
\* detect returns false.
C10_EmbeddedPhraseDoesNotTrigger ==
    (/\ trigPc = "done"
     /\ NoSideMatch
     /\ \E t \in TrigTexts : HasOccurrence(trigConfig.phrase, t)
     /\ \A t \in TrigTexts : ~HasStandalone(trigConfig.phrase, t))
    => trigResult = FALSE

C10_Witness ==
    /\ trigPc = "done"
    /\ trigResult = FALSE
    /\ NoSideMatch
    /\ trigConfig.phrase = T_at_j
    /\ trigEvent.kind = "issues"
    /\ trigEvent.textFields[1].text = <<"a", "j", ".", "j", "a">>
    /\ trigEvent.textFields[2].text = <<"j", "@", "j">>

AssignedWithTrigger ==
    /\ trigPc = "done"
    /\ trigEvent.kind = "issues"
    /\ trigEvent.action = "assigned"
    /\ trigConfig.assigneeTrigger # <<>>

AssigneeIsConfigured ==
    /\ trigEvent.assigneeLogin # <<>>
    /\ trigEvent.assigneeLogin = stripAt(trigConfig.assigneeTrigger)

\* C12: on an issue event with action "assigned" and a configured
\* assigneeTrigger, detect returns true when the configured value with one
\* leading "@" removed equals the assignee login exactly (letter case
\* included); with another assignee or none the assignee path contributes
\* nothing: the result is what the label and phrase paths give.
C12_AssigneePath ==
    AssignedWithTrigger =>
        IF AssigneeIsConfigured
        THEN trigResult = TRUE
        ELSE trigResult = (\/ labelPathMatches(trigEvent, trigConfig)
                           \/ phrasePathMatches(trigEvent, trigConfig))

C12_Witness ==
    /\ AssignedWithTrigger
    /\ trigConfig.assigneeTrigger = T_at_j
    /\ trigEvent.assigneeLogin = T_j
    /\ ~phrasePathMatches(trigEvent, trigConfig)
    /\ trigResult = TRUE

LabeledWithTrigger ==
    /\ trigPc = "done"
    /\ trigEvent.action = "labeled"
    /\ trigConfig.labelTrigger # <<>>

LabelIsConfigured ==
    /\ trigEvent.labelName # <<>>
    /\ trigEvent.labelName = trigConfig.labelTrigger

\* C13: on an event with action "labeled" and a configured labelTrigger,
\* detect returns true when the label name of the event equals the
\* configured label exactly; with another label or none the label path
\* contributes nothing: the result is what the assignee and phrase paths
\* give.
C13_LabelPath ==
    LabeledWithTrigger =>
        IF LabelIsConfigured
        THEN trigResult = TRUE
        ELSE trigResult = (\/ AssignedWithTrigger /\ AssigneeIsConfigured
                           \/ phrasePathMatches(trigEvent, trigConfig))

C13_Witness ==
    /\ LabeledWithTrigger
    /\ trigEvent.kind = "pull_request"
    /\ trigConfig.labelTrigger = T_j
    /\ trigEvent.labelName = T_j
    /\ ~phrasePathMatches(trigEvent, trigConfig)
    /\ trigResult = TRUE

AllTextFieldsBlank ==
    \A k \in DOMAIN trigEvent.textFields :
        \/ trigEvent.textFields[k].isNull
        \/ trigEvent.textFields[k].text = <<>>

\* C14: a text field that is null, missing or empty never matches: an event
\* whose text fields are all null or empty, with no assignee and no label
\* match, yields false for every trigger phrase.
C14_BlankTextNeverMatches ==
    (/\ trigPc = "done"
     /\ AllTextFieldsBlank
     /\ ~(AssignedWithTrigger /\ AssigneeIsConfigured)
     /\ ~(LabeledWithTrigger /\ LabelIsConfigured))
    => trigResult = FALSE

C14_Witness ==
    /\ trigPc = "done"
    /\ trigConfig.phrase = T_null
    /\ trigEvent.kind = "issues"
    /\ trigEvent.action = "opened"
    /\ trigEvent.textFields[1].isNull
    /\ trigEvent.textFields[2].isNull
    /\ trigResult = FALSE

----------------------------------------------------------------------------
(* escapeRegExp: properties *)

\* the pattern source read back: a backslash and the character after it
\* stand for that character
RECURSIVE unescaped(_)
unescaped(src) ==
    IF src = <<>> THEN <<>>
    ELSE IF Head(src) = "\\" /\ Len(src) >= 2
    THEN <<src[2]>> \o unescaped(SubSeq(src, 3, Len(src)))
    ELSE <<Head(src)>> \o unescaped(Tail(src))

\* every metacharacter of the source stands right after a backslash that
\* escapes it, and a backslash escapes nothing but a metacharacter
RECURSIVE onlyEscapedMetaChars(_)
onlyEscapedMetaChars(src) ==
    IF src = <<>> THEN TRUE
    ELSE IF Head(src) = "\\"
    THEN /\ Len(src) >= 2
         /\ src[2] \in RegExpMetaChars
         /\ onlyEscapedMetaChars(SubSeq(src, 3, Len(src)))
    ELSE /\ Head(src) \notin RegExpMetaChars
         /\ onlyEscapedMetaChars(Tail(src))

metaCharCount(str) ==
    Cardinality({k \in DOMAIN str : str[k] \in RegExpMetaChars})

\* C11: escapeRegExp(P) puts a backslash before every regex metacharacter of
\* P and leaves every other character (`@` included) as it is, so the
\* pattern built from it matches the string P itself and no other string.
C11_EscapeMatchesOnlyLiteral ==
    escPc = "done" =>
        /\ onlyEscapedMetaChars(escOutput)
        /\ unescaped(escOutput) = escInput
        /\ Len(escOutput) = Len(escInput) + metaCharCount(escInput)
        /\ patternMatchesWhole(escOutput, escInput)
        /\ \A t \in EscTexts :
               patternMatchesWhole(escOutput, t) => t = escInput

C11_Witness ==
    /\ escPc = "done"
    /\ escInput = <<".", "@">>
    /\ escOutput = <<"\\", ".", "@">>
    /\ ~patternMatchesWhole(escOutput, <<"j", "@">>)

----------------------------------------------------------------------------
(* Input size and task preparation: properties *)

\* the message names the size as "<size> characters (maximum: 19000)"
StatesSizeAndMaximum(message, size) ==
    \E i \in DOMAIN message :
        /\ i + Len(NumberToString(size)) + 5 <= Len(message)
        /\ SubSeq(message, i, i + Len(NumberToString(size)) + 5) =
              NumberToString(size)
              \o <<" characters (maximum: ", "1", "9", "0", "0", "0">>

\* C15: validateInputSize accepts every input of length at most 19000 (the
\* empty input and the input of exactly 19000 characters included) and
\* rejects every input of length 19001 or more with an error whose message
\* states the actual length and the maximum 19000.
C15_InputSizeLimit ==
    tkValidated.called =>
        /\ tkValidated.ok <=> tkValidated.size <= 19000
        /\ ~tkValidated.ok =>
              /\ tkPc = "failed"
              /\ StatesSizeAndMaximum(tkError, tkValidated.size)
        /\ tkValidated.ok =>
              /\ ~StatesSizeAndMaximum(tkError, tkValidated.size)
              /\ tkTaskText = Text(tkValidated.size)

C15_WitnessAtLimit ==
    /\ tkValidated.called
    /\ tkValidated.size = 19000
    /\ tkValidated.ok
    /\ tkPc = "returned"

C15_Witness ==
    /\ tkValidated.called
    /\ tkValidated.size = 19001
    /\ tkPc = "failed"
    /\ tkError = <<"Input \"", "pr-review", "\" is too large: ",
                   "1", "9", "0", "0", "1", " characters (maximum: ",
                   "1", "9", "0", "0", "0",
                   "). This limit exists because GitHub workflow_dispatch inputs are limited to 20KB. Please reduce the size of your ",
                   "pr-review", " and try again.">>

\* C16: on every event kind every task text that is output or returned has
\* at most 19000 characters, a configured prompt used as it is on an event
\* without a prompt of its own (workflow_dispatch, ...) included: with such
\* a prompt of more than 19000 characters prepareJunieTask does not return.
C16_OversizedPromptIsFatal ==
    /\ tkOutput.kind = "task" => tkOutput.task.len <= 19000
    /\ tkReturn.kind = "task" => tkReturn.task.len <= 19000
    /\ (/\ taskType(tkContext) = ""
        /\ ~isMergeTask(tkContext)
        /\ customPrompt(tkContext).len > 19000) => tkPc # "returned"

----------------------------------------------------------------------------
(* GraphQL retry: properties *)

Attempts == Len(rtLog)

Settled == rtPc \in {"resolved", "rejected"}

Successes == {i \in DOMAIN rtLog : rtLog[i].status = 200}

\* C17 as stated: a GraphQL fetch makes at most 3 attempts in total.
C17_AtMostThreeAttempts == Attempts <= 3

\* C17, amended: a GraphQL fetch makes at most 4 attempts in total, the
\* first call and the 3 retries configured, whatever sequence of transient
\* failures occurs; a fourth failure settles the fetch.
C17_AtMostFourAttempts ==
    /\ Attempts <= 4
    /\ rtPc = "running" => Attempts <= 3

C17_Witness ==
    /\ Attempts = 4
    /\ \A i \in 1..3 : rtLog[i].status \in TransientStatuses
    /\ rtLog[4].status = 200
    /\ rtPc = "resolved"

\* C18: an attempt that fails with status 404, 422, 401 or 403 is never
\* followed by another attempt: it is the last call made, and the fetch is
\* rejected with that status, also after earlier transient failures.
C18_PermanentFailureNotRetried ==
    \A i \in DOMAIN rtLog :
        rtLog[i].status \in {404, 422, 401, 403} =>
            /\ i = Len(rtLog)
            /\ rtPc = "rejected"
            /\ rtOutcome.kind = "rejected"
            /\ rtOutcome.status = rtLog[i].status

C18_Witness ==
    /\ Attempts = 3
    /\ rtLog[1].status = 500
    /\ rtLog[2].status = 0
    /\ rtLog[3].status = 403
    /\ rtOutcome = [kind |-> "rejected", status |-> 403, data |-> ""]

\* what a settled fetch must look like
SettledAsAttempted ==
    /\ rtOutcome.kind = "resolved" =>
          /\ Successes = {Len(rtLog)}
          /\ rtOutcome.data = rtLog[Len(rtLog)].data
          /\ rtOutcome.data \in Responses
    /\ rtOutcome.kind = "rejected" =>
          /\ Successes = {}
          /\ rtOutcome.status = rtLog[Len(rtLog)].status
    /\ Successes # {} => rtPc = "resolved"
    /\ Settled <=> rtOutcome.kind # "none"
    /\ Attempts <= retries + 1

\* C19: every GraphQL fetch terminates: it resolves with the result of the
\* first successful attempt, after which no further attempt is made, or it
\* is rejected with the error of the last attempt once a permanent failure
\* occurs or the bounded retries are exhausted; it never resolves after all
\* attempts failed.
C19_FetchTerminates == <>Settled /\ []SettledAsAttempted

C19_Witness ==
    /\ rtPc = "rejected"
    /\ Attempts = retries + 1
    /\ \A i \in DOMAIN rtLog : rtLog[i].status \in TransientStatuses
    /\ rtOutcome.kind = "rejected"

----------------------------------------------------------------------------
(* Entrypoints: properties *)

\* C20: an error thrown by any operation of a run step reaches the catch
\* block of the step's entrypoint: the run is marked failed with the
\* message, the message is the EXCEPTION output, the process exits with
\* status 1, and no operation after the throwing one is executed; without
\* an error nothing is reported and the status is 0.
C20_ErrorsReachEntrypoint ==
    /\ stThrown.at # 0 =>
          /\ stReport.exited
          /\ stReport.exitCode # 0
          /\ stReport.failed = <<stepFailurePrefix(stStep), stThrown.text>>
          /\ stReport.exceptionSet
          /\ stReport.exception = stThrown.text
          /\ stDone = SubSeq(stepOperations(stStep), 1, stThrown.at - 1)
          /\ ~ENABLED NextStep
    /\ (stReport.exited /\ stThrown.at = 0) =>
          /\ stReport = [NoReport EXCEPT !.exited = TRUE]
          /\ stDone = stepOperations(stStep)

----------------------------------------------------------------------------
(* handleResults: properties *)

\* some git command of the step failed
GitCommandFailed == \E i \in DOMAIN hrGit : hrGit[i].outcome = "throws"

\* C21: every failure of a git operation is surfaced as an error of the
\* run: once a git command of handleResults has failed, the step has
\* reported a failure and exited with status 1; it never goes on as if the
\* command had succeeded.
C21_GitFailuresSurfaced ==
    GitCommandFailed => hrReport.exited /\ hrReport.exitCode = 1

\* what getActionToDo saw
SawChangedFiles == Len(hrGit) >= 1 /\ hrGit[1].outcome = "output"

SawUnpushedCommits == Len(hrGit) >= 2 /\ hrGit[2].outcome = "output"

\* C27: getActionToDo chooses exactly one action as a total function of
\* silentMode, hasChangedFiles, hasUnpushedCommits, the presence of an
\* initial comment id and isNewBranch: NOTHING in silent mode; otherwise
\* CREATE_PR iff changed files on a new branch, COMMIT_CHANGES iff changed
\* files on a reused branch, PUSH iff no changed files but unpushed commits,
\* WRITE_COMMENT iff neither and an initial comment id, NOTHING in the
\* remaining case.
C27_ActionIsTotalFunction ==
    hrPc = "done" =>
        /\ hrAction \in ActionTypes
        /\ hrIn.silentMode => hrAction = "NOTHING"
        /\ ~hrIn.silentMode =>
              /\ hrAction = "CREATE_PR"
                    <=> SawChangedFiles /\ hrIn.isNewBranch
              /\ hrAction = "COMMIT_CHANGES"
                    <=> SawChangedFiles /\ ~hrIn.isNewBranch
              /\ hrAction = "PUSH"
                    <=> ~SawChangedFiles /\ SawUnpushedCommits
              /\ hrAction = "WRITE_COMMENT"
                    <=> /\ ~SawChangedFiles
                        /\ ~SawUnpushedCommits
                        /\ hrIn.initCommentId
              /\ hrAction = "NOTHING"
                    <=> /\ ~SawChangedFiles
                        /\ ~SawUnpushedCommits
                        /\ ~hrIn.initCommentId

\* changed files and unpushed commits on a reused branch, with an initial
\* comment: the changes are committed
C27_Witness ==
    /\ hrPc = "done"
    /\ ~hrIn.silentMode
    /\ SawChangedFiles
    /\ SawUnpushedCommits
    /\ hrIn.initCommentId
    /\ ~hrIn.isNewBranch
    /\ hrAction = "COMMIT_CHANGES"

\* C29: when the agent output reports a non-empty list of errors,
\* handleResults fails before any action is chosen: no git command is run,
\* no output but EXCEPTION is set, and the step exits with status 1 with the
\* errors of the agent in the failure message.
C29_AgentErrorsFailFirst ==
    Len(hrIn.errors.list) > 0 /\ hrPc # "start" =>
        /\ hrPc = "failed"
        /\ hrGit = <<>>
        /\ hrAction = ""
        /\ hrOutputs = {"EXCEPTION"}
        /\ hrReport.exited
        /\ hrReport.exitCode = 1
        /\ hrReport.failed[2] = "Junie run failed with errors: "
        /\ hrReport.errors = hrIn.errors.list

\* a failed step that reports the single error of the agent
C29_Witness ==
    /\ hrPc = "failed"
    /\ hrIn.errors.list = <<"e1">>
    /\ hrReport.errors = <<"e1">>
    /\ hrReport.exitCode = 1
    /\ ~hrIn.silentMode

----------------------------------------------------------------------------
(* Task descriptor: properties *)

\* resolveConflicts is set or the comment / review holds the phrase
MergeRequested == tkContext.inputs.resolveConflicts \/ tkContext.resolvePhrase

\* the descriptor returned holds a merge-task directive
HasMergeTask == tkPc = "returned" /\ tkReturn.kind = "merge"

C23_OutputIsReturnedDescriptor ==
    tkPc = "returned" => tkOutput = tkReturn

\* C24: the entries of the descriptor are set independently and combine: a
\* configured prompt gives a text entry also when a merge is requested, and
\* a context that meets none of the conditions gives the empty descriptor
\* without an error.
C24_EntriesCombine ==
    /\ tkPc = "returned" =>
          /\ HasMergeTask <=> MergeRequested
          /\ customPrompt(tkContext).defined => tkReturn.task.defined
    /\ tkError # <<"No task was created. Please check your inputs.">>

----------------------------------------------------------------------------
(* Initial feedback comment: properties *)

\* C25: in silent mode writeInitialFeedbackComment posts nothing: no call
\* that creates a comment or a reply, no INIT_COMMENT_ID output, undefined
\* returned, for every event; the same outside silent mode for an event
\* with no entity number that is not a review comment.
C25_SilentModePostsNothing ==
    /\ fbPc # "start"
    /\ \/ fbContext.silentMode
       \/ /\ fbContext.entityNumber = 0
          /\ ~isPullRequestReviewCommentEvent(fbContext)
    => /\ fbCalls = <<>>
       /\ fbOutput = 0
       /\ fbReturn = [kind |-> "undefined", id |-> 0]

----------------------------------------------------------------------------
(* Access check: properties *)

\* the access check has settled
AccessSettled == acPc \in {"returned", "failed"}

\* the answer of the one lookup made, "" when none was made
LookedUp == IF acLookups = <<>> THEN "" ELSE acLookups[1].response

\* C26: the access check returns true only when the actor login ends with
\* [bot], and then no permission lookup is made, or the permission level
\* looked up is admin or write; for read or none it returns false; when
\* the lookup fails it throws and never returns true.
C26_AccessOnlyForWritersAndApps ==
    AccessSettled =>
        /\ Len(acLookups) <= 1
        /\ acReturn.kind = "value" /\ acReturn.value =>
              \/ acActor \in {U_app, U_suffixOnly} /\ acLookups = <<>>
              \/ LookedUp \in {"admin", "write"}
        /\ acActor \in {U_app, U_suffixOnly} => acLookups = <<>>
        /\ LookedUp \in {"read", "none"} =>
              /\ acPc = "returned"
              /\ acReturn.kind = "value"
              /\ ~acReturn.value
        /\ LookedUp \in LookupFailures =>
              /\ acPc = "failed"
              /\ acReturn.kind = "thrown"
              /\ ~acReturn.value

\* a login that holds [bot] elsewhere than at its end is looked up and
\* refused with read permission
C26_Witness ==
    /\ acPc = "returned"
    /\ acActor = U_prefixed
    /\ LookedUp = "read"
    /\ ~acReturn.value

----------------------------------------------------------------------------
(* setupBranch outputs and closed pull requests: properties *)

IsCheckout(entry) == entry.cmd \in {"checkout", "checkout -b"}

\* the head branch of the pull request was checked out as it is
PRHeadReused ==
    /\ Len(gitLog) = 2
    /\ inPRBlock(context)
    /\ gitLog[2] = [cmd |-> "checkout", ref |-> ThePR.head, start |-> <<>>]

\* C28: setupBranch sets BASE_BRANCH, WORKING_BRANCH and IS_NEW_BRANCH only
\* after the git fetch and the checkout of the working branch, in that
\* order, have both succeeded; the outputs equal the branch information
\* returned, IS_NEW_BRANCH is "false" exactly when the PR head branch is
\* reused; when a step fails none of the outputs is set.
C28_OutputsAfterFetchAndCheckout ==
    /\ \A i \in DOMAIN gitLog :
          IsCheckout(gitLog[i]) => i = 2 /\ gitLog[1].cmd = "fetch"
    /\ outputs.set =>
          /\ error = NoError
          /\ Len(gitLog) = 2
          /\ gitLog[1].cmd = "fetch"
          /\ IsCheckout(gitLog[2])
          /\ gitLog[2].ref = outputs.WORKING_BRANCH
          /\ branchInfo.set
          /\ outputs.BASE_BRANCH = branchInfo.baseBranch
          /\ outputs.WORKING_BRANCH = branchInfo.workingBranch
          /\ outputs.IS_NEW_BRANCH \in {"true", "false"}
          /\ outputs.IS_NEW_BRANCH = "true" <=> branchInfo.isNewBranch
          /\ outputs.IS_NEW_BRANCH = "false" <=> PRHeadReused
    /\ pc = "failed" => outputs = NoOutputs /\ error # NoError
    /\ pc = "done" => outputs.set

\* a reused PR head: the outputs are set after two git commands
C28_Witness ==
    /\ pc = "done"
    /\ outputs.set
    /\ outputs.IS_NEW_BRANCH = "false"
    /\ PRHeadReused
    /\ outputs.WORKING_BRANCH = ThePR.head

\* the name junie/pr-<number>
prBranchName(number) ==
    WORKING_BRANCH_PREFIX \o S_pr \o S_dash \o NumberToString(number)

====
